---- MODULE Spec2Model ----
(***************************************************************************)
(* Verification model of the Quantum Precision V2 signal bot.              *)
(*                                                                         *)
(* Part I   BotController (src/bot_control.py): the trading loop, its      *)
(*          rate limiter and its safety state, run by asyncio tasks that   *)
(*          interleave at their await points; the background loops of      *)
(*          TradingCore (src/core.py).                                     *)
(*                                                                         *)
(* Not modelled: SignalAnalyzer.last_signals and globals.performance_stats *)
(* (written, never read by the code modelled here), the log, and the       *)
(* websocket data stream task.                                             *)
(*                                                                         *)
(* Times are wall-clock seconds.  None is written NoTime.                  *)
(***************************************************************************)
EXTENDS Integers, Sequences, FiniteSets, TLC

(***************************************************************************)
(* Program constants.                                                      *)
(***************************************************************************)
MaxSignalsPerHour == 5
MaxSignalsPerDay == 40
MinAccuracy == 85
MinSignalInterval == 60
MaxErrorsPerHour == 20
SafetyPause == 300
RetrainInterval == 3600
MonitorInterval == 1800
BackgroundErrorPause == 300
NoDataPause == 10
CycleInterval == 10
HourSeconds == 3600
DaySeconds == 86400

(***************************************************************************)
(* Bounds of the model.                                                    *)
(***************************************************************************)
MaxTicks == 3
MaxBatch == 2
MaxCycles == 2
MaxErrors == 2
MaxDualTicks == 1
MaxDualCycles == 2
MaxRateTicks == 50
MaxRateCycles == 60

NoTime == 0 - 1

Tasks == 1..2
Pairs == {"BTCUSDT"}
Timeframes == {"1m", "5m"}
Accuracies == {80, 90}

Max(a, b) == IF a >= b THEN a ELSE b
Min(a, b) == IF a <= b THEN a ELSE b

\* datetime.replace(minute=0, second=0, microsecond=0)
HourFloor(t) == t - (t % HourSeconds)
\* datetime.date()
DateOf(t) == t \div DaySeconds
HourOf(t) == t \div HourSeconds

\* The clock advances in steps of one minimum signal interval.
TickStep == MinSignalInterval
\* The controller is constructed one step before midnight of day 0.
StartClock == DaySeconds - TickStep
Horizon == StartClock + MaxTicks * TickStep

VARIABLES
    now,        \* datetime.now()
    bot,        \* the BotController instance
    task,       \* the asyncio tasks that run BotController.start_trading
    em,         \* the asyncio task that runs BotController.emergency_shutdown
    core,       \* the TradingCore instance, its BinanceWebSocket and its background loops
    acc,        \* history of the accepted signals (send succeeded, counters incremented)
    an,         \* the SignalAnalyzer: the market snapshot it is given and what its runs returned
    ai,         \* the AIPredictor of the core: weights, per-key history, performance list
    disk        \* the model file trading_model.json

vars == <<now, bot, task, em, core, acc, an, ai, disk>>

(***************************************************************************)
(* Signals and batches, as SignalAnalyzer.analyze_all_pairs returns them:  *)
(* at most one signal per (pair, timeframe), sorted by accuracy,           *)
(* descending.                                                             *)
(***************************************************************************)
RequiredFields == {"pair", "timeframe", "direction", "accuracy", "entry_time"}

SignalsAt(t) ==
    [pair : Pairs, timeframe : Timeframes, direction : {"BUY"},
     accuracy : Accuracies, entry_time : {t}]

KeyOf(sig) == <<sig.pair, sig.timeframe>>
Keys == Pairs \X Timeframes

\* A batch left in the order of the analysis tasks.
UnsortedBatch(b) ==
    \A i, j \in DOMAIN b : i # j => KeyOf(b[i]) # KeyOf(b[j])

IsBatch(b) ==
    /\ \A i, j \in DOMAIN b : i < j => b[i].accuracy >= b[j].accuracy
    /\ \A i, j \in DOMAIN b : i # j => KeyOf(b[i]) # KeyOf(b[j])

Batches(t, n) == {b \in UNION {[1..k -> SignalsAt(t)] : k \in 0..n} : IsBatch(b)}

\* The batches whose signals all pass the accuracy check of _validate_signal.
StrongBatches(t, n) == {b \in Batches(t, n) : \A k \in DOMAIN b : b[k].accuracy >= MinAccuracy}

(***************************************************************************)
(* Part II  SignalAnalyzer (src/signal_analyzer.py) and AIPredictor        *)
(*          (src/ai_model.py): the scoring of one (pair, timeframe).       *)
(*                                                                         *)
(* A score is a fixed-point number, One being the score 1.0; a final score *)
(* is counted in tenths of that unit, which makes the weights 0.3, 0.3 and *)
(* 0.4 exact.  The model covers finite scores: NaN and the rounding errors *)
(* of the floats are left out.  What the levels read from the candles is   *)
(* given per (pair, timeframe):                                            *)
(*   level1   valid and impulse_strength of _level1_momentum_impulse       *)
(*   level2   the result of _level2_indicator_convergence                  *)
(*   base, hist, market   what _calculate_base_prediction,                 *)
(*            _get_historical_correction and _get_market_correction return *)
(*   pattern  what _detect_patterns returns                                *)
(***************************************************************************)
One == 100 * 100
SignalThreshold == 8700
ConfidenceThreshold == 8000
MinValidLevels == 2
FinalThreshold == 70000
BonusThreshold == 8000
Bonus == 5000

\* TRADING_PAIRS x TIMEFRAMES, in the order analyze_all_pairs walks them.
KeyOrder == <<<<"BTCUSDT", "1m">>, <<"BTCUSDT", "5m">>>>

\* datetime.now().hour
HourOfDay(t) == (t \div HourSeconds) % 24

GetTimeCorrection(hour) ==
    IF 8 <= hour /\ hour <= 16 THEN 6000
    ELSE IF 16 <= hour /\ hour <= 20 THEN 7000
    ELSE IF 0 <= hour /\ hour <= 6 THEN 4000
    ELSE 5000

\* max(0.0, min(1.0, x))
Clamp(x) == Max(0, Min(One, x))

\* AIPredictor.predict at the given hour of the day.
Predict(f, hour) ==
    Clamp((6 * f.base + 2 * f.hist + GetTimeCorrection(hour) + f.market) \div 10)

\* The result of _level1_momentum_impulse: the score is min(impulse_strength / 3, 1).
Level1MomentumImpulse(f) ==
    [valid |-> f.level1.valid,
     score |-> Min(f.level1.impulse_strength \div 3, One),
     impulse_strength |-> f.level1.impulse_strength]

Level3AiPrediction(f, hour) ==
    LET ai_prediction == Predict(f, hour)
    IN  [valid |-> /\ ai_prediction >= SignalThreshold
                   /\ ai_prediction >= ConfidenceThreshold
                   /\ f.pattern,
         score |-> ai_prediction,
         ai_prediction |-> ai_prediction]

CalculateFinalScore(level1, level2, level3) ==
    LET final_score == 3 * level1.score + 3 * level2.score + 4 * level3.score
        bonus == IF /\ level1.score > BonusThreshold
                    /\ level2.score > BonusThreshold
                    /\ level3.score > BonusThreshold
                 THEN Bonus ELSE 0
    IN  Min(final_score + bonus, 10 * One)

DetermineDirection(level1, level2, level3) ==
    LET bullish == (IF level1.impulse_strength > 0 THEN 1 ELSE 0)
                   + (IF level2.macd_condition THEN 1 ELSE 0)
                   + (IF level3.ai_prediction > One \div 2 THEN 1 ELSE 0)
        bearish == 3 - bullish
    IN  IF bullish > bearish THEN "BUY" ELSE "SELL"

\* round(final_score * 100, 2): a final score in hundredths of a percent, ties to even.
RoundAccuracy(final_score) ==
    LET q == final_score \div 10
        r == final_score % 10
    IN  IF r > 5 \/ (r = 5 /\ q % 2 = 1) THEN q + 1 ELSE q

ValidLevels(level1, level2, level3) ==
    (IF level1.valid THEN 1 ELSE 0) + (IF level2.valid THEN 1 ELSE 0)
    + (IF level3.valid THEN 1 ELSE 0)

\* Any one valid level is taken for enough.
OneLevelValid(valid_levels) == ~(valid_levels < 1)

\* if valid_levels < 2: return {}
EnoughValidLevels(valid_levels) == ~(valid_levels < MinValidLevels)

\* if final_score < 0.70: return {}
ScoreAccepted(final_score) == ~(final_score < FinalThreshold)

\* The empty result {}: its 'signal' is missing, which analyze_all_pairs reads as false.
NoSignal == [signal |-> FALSE]

\* _apply_quantum_precision_v2 from the results of the three levels on.
CombineLevels(pair, timeframe, level1, level2, level3) ==
    LET final_score == CalculateFinalScore(level1, level2, level3)
    IN  IF ~EnoughValidLevels(ValidLevels(level1, level2, level3)) THEN NoSignal
        ELSE IF ~ScoreAccepted(final_score) THEN NoSignal
        ELSE [signal |-> TRUE, pair |-> pair, timeframe |-> timeframe,
              direction |-> DetermineDirection(level1, level2, level3),
              accuracy |-> RoundAccuracy(final_score)]

ApplyQuantumPrecisionV2(pair, timeframe, f, hour) ==
    CombineLevels(pair, timeframe, Level1MomentumImpulse(f), f.level2,
                  Level3AiPrediction(f, hour))

\* signals.sort(key=accuracy, reverse=True): stable, equal accuracies keep their order.
RECURSIVE SortByAccuracy(_)
SortByAccuracy(signals) ==
    IF signals = <<>> THEN <<>>
    ELSE LET sorted == SortByAccuracy(SubSeq(signals, 1, Len(signals) - 1))
             x == signals[Len(signals)]
             before == SelectSeq(sorted, LAMBDA y : y.accuracy >= x.accuracy)
             after == SelectSeq(sorted, LAMBDA y : y.accuracy < x.accuracy)
         IN  before \o <<x>> \o after

\* What _analyze_pair_timeframe returns for every key, in the order of the tasks.
PairResults(snapshot, hour) ==
    [j \in DOMAIN KeyOrder |->
        ApplyQuantumPrecisionV2(KeyOrder[j][1], KeyOrder[j][2], snapshot[KeyOrder[j]], hour)]

\* analyze_all_pairs: the results that carry a signal, sorted.
AnalyzeAllPairs(snapshot, hour) ==
    SortByAccuracy(SelectSeq(PairResults(snapshot, hour), LAMBDA r : r.signal))

\* The candle readings the snapshots are drawn from.
Level1Inputs ==
    {[valid |-> FALSE, impulse_strength |-> 15000],
     [valid |-> TRUE, impulse_strength |-> 15000],
     [valid |-> TRUE, impulse_strength |-> 27000]}
Level2Results ==
    {[valid |-> FALSE, score |-> 5000, macd_condition |-> FALSE],
     [valid |-> TRUE, score |-> 9000, macd_condition |-> TRUE],
     [valid |-> TRUE, score |-> 10000, macd_condition |-> TRUE]}
KeyInputs ==
    [level1 : Level1Inputs, level2 : Level2Results, base : {5000, 10000},
     hist : {5000, 8000}, market : {6000}, pattern : BOOLEAN]

\* A snapshot in which no key shows anything.
QuietInputs ==
    [level1 |-> [valid |-> FALSE, impulse_strength |-> 0],
     level2 |-> [valid |-> FALSE, score |-> 0, macd_condition |-> FALSE],
     base |-> 5000, hist |-> 5000, market |-> 5000, pattern |-> FALSE]

NewAn(snapshot) == [snapshot |-> snapshot, runs |-> <<>>]

(***************************************************************************)
(* AIPredictor: weights, history and the model file.  A weight is an exact *)
(* fraction num/den with one denominator for all features, kept in lowest  *)
(* terms; floating-point rounding is not modelled.  A performance record   *)
(* is its arrival number (standing for timestamp, prediction, actual and   *)
(* error) and its accuracy, 0 or 1.                                        *)
(***************************************************************************)
MaxKeyHistory == 100
MaxPerformanceHistory == 1000
SavedPerformance == 100
RecentWindow == 50
MinRetrainRecords == 10

Features ==
    {"rsi", "macd", "volume_ratio", "bb_position", "vwap_gradient",
     "price_momentum", "volume_momentum", "volatility"}

RECURSIVE GCD(_, _)
GCD(a, b) == IF b = 0 THEN a ELSE GCD(b, a % b)

RECURSIVE SumWeights(_, _)
SumWeights(num, S) ==
    IF S = {} THEN 0
    ELSE LET f == CHOOSE x \in S : TRUE
         IN  num[f] + SumWeights(num, S \ {f})

RECURSIVE GCDWeights(_, _)
GCDWeights(num, S) ==
    IF S = {} THEN 0
    ELSE LET f == CHOOSE x \in S : TRUE
         IN  GCD(num[f], GCDWeights(num, S \ {f}))

\* The same fractions in lowest terms.
Reduce(w) ==
    LET g == GCD(w.den, GCDWeights(w.num, Features))
    IN  [num |-> [f \in Features |-> w.num[f] \div g], den |-> w.den \div g]

\* self.model_weights of a new AIPredictor: 0.15, 0.20, 0.15, 0.10, 0.15, 0.12, 0.08, 0.05.
DefaultWeights ==
    [num |-> [rsi |-> 15, macd |-> 20, volume_ratio |-> 15, bb_position |-> 10,
              vwap_gradient |-> 15, price_momentum |-> 12, volume_momentum |-> 8,
              volatility |-> 5],
     den |-> 100]

NewPredictor ==
    [model_weights |-> DefaultWeights,
     historical_data |-> [k \in Keys |-> <<>>],
     performance_history |-> <<>>]

\* Nothing is evicted.
KeepAll(seq, n) == seq

\* seq[-n:]
LastN(seq, n) == IF Len(seq) > n THEN SubSeq(seq, Len(seq) - n + 1, Len(seq)) ELSE seq

\* self.model_weights[feature] *= p/q, for every feature.
ScaleWeights(w, p, q) ==
    Reduce([num |-> [f \in Features |-> w.num[f] * p], den |-> w.den * q])

\* The scaled weights are left as they are.
KeepScaled(w) == w

\* self.model_weights[feature] /= total_weight, for every feature, where
\* total_weight = sum(self.model_weights.values()) is not zero.
NormalizeWeights(w) ==
    LET total == SumWeights(w.num, Features)
    IN  Reduce([num |-> [f \in Features |-> w.num[f] * w.den], den |-> w.den * total])

\* np.mean of the accuracies, compared with p/q.
Hits(records) == Len(SelectSeq(records, LAMBDA r : r.accuracy = 1))

\* The early return of retrain_model is skipped.
AnyRecords(recent) == TRUE

\* if len(recent_performance) < 10: return
EnoughRecords(recent) == ~(Len(recent) < MinRetrainRecords)

\* retrain_model.  A zero total weight raises at the first division, after the
\* weights were scaled; the exception is caught.
RetrainModel(p) ==
    IF p.performance_history = <<>> THEN p
    ELSE LET recent == LastN(p.performance_history, RecentWindow)
             w == p.model_weights
             scaled == IF Hits(recent) * 10 < 6 * Len(recent) THEN ScaleWeights(w, 95, 100)
                       ELSE IF Hits(recent) * 10 > 8 * Len(recent) THEN ScaleWeights(w, 105, 100)
                       ELSE w
         IN  IF ~EnoughRecords(recent) THEN p
             ELSE IF SumWeights(scaled.num, Features) = 0
                  THEN [p EXCEPT !.model_weights = scaled]
                  ELSE [p EXCEPT !.model_weights = NormalizeWeights(scaled)]

\* update_model_performance: append to the key's history and to the
\* performance list, each cut to its most recent records.
UpdateModelPerformance(p, key, result) ==
    [p EXCEPT !.historical_data[key] = LastN(Append(@, result), MaxKeyHistory),
              !.performance_history = LastN(Append(@, result), MaxPerformanceHistory)]

\* The content of the model file: no file, a file json.load rejects, a JSON
\* value that is not an object, or an object with some of the fields.
NoFile ==
    [kind |-> "missing", fields |-> {}, weights |-> DefaultWeights,
     historical_data |-> [k \in Keys |-> <<>>], performance_history |-> <<>>]

DocumentFields == {"weights", "historical_data", "performance_history"}

\* The whole performance list is written.
SaveWholeDocument(p) ==
    [kind |-> "object", fields |-> DocumentFields, weights |-> p.model_weights,
     historical_data |-> p.historical_data,
     performance_history |-> p.performance_history]

\* save_model: the document it writes.
SaveDocument(p) ==
    [kind |-> "object", fields |-> DocumentFields, weights |-> p.model_weights,
     historical_data |-> p.historical_data,
     performance_history |-> LastN(p.performance_history, SavedPerformance)]

\* load_model: open, json.load or the first .get raises before anything is
\* assigned; a missing field takes the default of its .get.
\* Every file that exists is taken for a model document.
FileExists(file) == file.kind # "missing"

\* open(filepath), json.load(f) and model_data.get succeed: the file holds a
\* JSON object.
IsObject(file) == file.kind = "object"

LoadModel(p, file) ==
    IF ~IsObject(file) THEN p
    ELSE [model_weights |-> IF "weights" \in file.fields THEN file.weights
                            ELSE p.model_weights,
          historical_data |-> IF "historical_data" \in file.fields
                              THEN file.historical_data ELSE [k \in Keys |-> <<>>],
          performance_history |-> IF "performance_history" \in file.fields
                                  THEN file.performance_history ELSE <<>>]

(***************************************************************************)
(* BotController: synchronous helpers.                                     *)
(***************************************************************************)
NewBot(t) ==
    [is_active |-> FALSE, start_time |-> NoTime, last_signal_time |-> NoTime,
     signals_sent_today |-> 0, signals_sent_hour |-> 0,
     hour_reset_time |-> HourFloor(t),
     total_cycles |-> 0, successful_cycles |-> 0, errors_count |-> 0,
     emergency_stop |-> FALSE, errors_this_hour |-> 0,
     error_reset_time |-> HourFloor(t)]

ResetCounters(c) ==
    [c EXCEPT !.total_cycles = 0, !.successful_cycles = 0, !.errors_count = 0,
              !.signals_sent_today = 0, !.signals_sent_hour = 0,
              !.errors_this_hour = 0]

\* validate_signal_quality always answers True for a signal that has its keys.
ValidateSignal(sig, c, t) ==
    /\ RequiredFields \subseteq DOMAIN sig
    /\ ~(sig.accuracy < MinAccuracy)
    /\ (c.last_signal_time # NoTime => ~(t - c.last_signal_time < MinSignalInterval))

CheckSignalLimits(c) ==
    /\ ~(c.signals_sent_hour >= MaxSignalsPerHour)
    /\ ~(c.signals_sent_today >= MaxSignalsPerDay)

\* while self.is_active and not self.emergency_stop
LoopTest(c) == c.is_active /\ ~c.emergency_stop

\* The send returned instead of raising, whatever it returned.
SendReturned(outcome) == outcome # "raise"

\* if success: save the signal and count it
SendSucceeded(outcome) == outcome = "true"

CheckSafetyLimits(c) ==
    /\ ~(c.errors_this_hour >= MaxErrorsPerHour)
    /\ ~c.emergency_stop

ResetTimeBasedCounters(c, t) ==
    LET c1 == IF t >= c.hour_reset_time + HourSeconds
              THEN [c EXCEPT !.signals_sent_hour = 0, !.hour_reset_time = HourFloor(t)]
              ELSE c
        c2 == IF t >= c1.error_reset_time + HourSeconds
              THEN [c1 EXCEPT !.errors_this_hour = 0, !.error_reset_time = HourFloor(t)]
              ELSE c1
    IN  IF c2.start_time # NoTime /\ DateOf(t) # DateOf(c2.start_time)
        THEN [c2 EXCEPT !.signals_sent_today = 0]
        ELSE c2

(***************************************************************************)
(* A task: one call of BotController.start_trading and the                 *)
(* _main_trading_loop it awaits.  pc names the await the task is           *)
(* suspended at; wake is the time its asyncio.sleep ends, NoTime once the   *)
(* sleep is over.                                                          *)
(*   sent, saved, sendok: per signal of the task's current batch, the      *)
(*   calls of telegram.send_signal and database.save_signal made for it    *)
(*   and whether its send returned True.                                   *)
(***************************************************************************)
\* `limited` is a history field: the batch of the task's last cycle whose loop the
\* limiter broke, with the index of the signal it refused and what had been handed
\* to send_signal and save_signal by then; NotLimited when that cycle had no refusal.
NotLimited == [at |-> 0, batch |-> <<>>, sent |-> <<>>, saved |-> <<>>]

IdleTask ==
    [pc |-> "idle", signals |-> <<>>, i |-> 0, cycle_start |-> NoTime, wake |-> NoTime,
     sent |-> <<>>, saved |-> <<>>, sendok |-> <<>>, limited |-> NotLimited]

\* min_gap: the least time between two successive accepted signals of one key.
NewAcc ==
    [hour |-> NoTime, in_hour |-> 0, day |-> NoTime, in_day |-> 0,
     last |-> [k \in Keys |-> NoTime], min_gap |-> NoTime]

\* The signal `sig` is accepted at time t.
Accepted(a, sig, t) ==
    [hour |-> HourOf(t),
     in_hour |-> IF a.hour = HourOf(t) THEN a.in_hour + 1 ELSE 1,
     day |-> DateOf(t),
     in_day |-> IF a.day = DateOf(t) THEN a.in_day + 1 ELSE 1,
     last |-> [a.last EXCEPT ![KeyOf(sig)] = t],
     min_gap |-> IF a.last[KeyOf(sig)] = NoTime THEN a.min_gap
                 ELSE IF a.min_gap = NoTime THEN t - a.last[KeyOf(sig)]
                 ELSE Min(a.min_gap, t - a.last[KeyOf(sig)])]

\* TradingCore after initialize(): the simulated websocket connection exists, no
\* background loop runs yet.  retrain_pc and monitor_pc tell where _ai_retrain_loop
\* and _performance_monitoring_loop stand ("idle": not created, "done": returned),
\* retrain_wake and monitor_wake when their asyncio.sleep ends.
NewCore ==
    [is_running |-> FALSE, ws_running |-> FALSE, ws_connected |-> TRUE,
     retrain_pc |-> "idle", retrain_wake |-> NoTime,
     monitor_pc |-> "idle", monitor_wake |-> NoTime]

InitAt(t) ==
    /\ now = t
    /\ bot = NewBot(t)
    /\ task = [u \in Tasks |-> IdleTask]
    /\ em = "idle"
    /\ core = NewCore
    /\ acc = NewAcc
    /\ an = NewAn([k \in Keys |-> QuietInputs])
    /\ ai = NewPredictor
    /\ disk = NoFile

Init == InitAt(StartClock)

\* Index of the first signal from i on that passes _validate_signal, or Len + 1.
RECURSIVE NextCandidate(_, _, _, _)
NextCandidate(signals, i, c, t) ==
    IF i > Len(signals) THEN i
    ELSE IF ValidateSignal(signals[i], c, t) THEN i
    ELSE NextCandidate(signals, i + 1, c, t)

\* asyncio.sleep until `until`, called at time t: the time the sleeper may resume,
\* NoTime when it may resume at once.
Sleep(until, t) == IF until <= t THEN NoTime ELSE until

\* A cycle that ends as one that raised: the error counters are incremented.
EndOfFailedCycle(c, tk, t) ==
    [bot |-> ResetTimeBasedCounters(
                [c EXCEPT !.total_cycles = @ + 1, !.successful_cycles = @ + 1,
                          !.errors_count = @ + 1, !.errors_this_hour = @ + 1], t),
     task |-> [IdleTask EXCEPT !.pc = "loop", !.wake = Sleep(tk.cycle_start + CycleInterval, t)]]

\* The end of a cycle that raised nothing: statistics, _reset_time_based_counters,
\* then _wait_next_cycle.
EndOfCycle(c, tk, t) ==
    [bot |-> ResetTimeBasedCounters(
                [c EXCEPT !.total_cycles = @ + 1, !.successful_cycles = @ + 1], t),
     task |-> [IdleTask EXCEPT !.pc = "loop", !.wake = Sleep(tk.cycle_start + CycleInterval, t)]]

\* _process_signals from signal i on, up to its next await: the signals that fail
\* validation are skipped, the limiter breaks the loop, and the first signal that
\* passes both is handed to telegram.send_signal.
ProcessSignals(c, tk, i, t) ==
    LET j == NextCandidate(tk.signals, i, c, t)
    IN  IF j > Len(tk.signals) THEN EndOfCycle(c, tk, t)
        ELSE IF ~CheckSignalLimits(c)
        THEN [EndOfCycle(c, tk, t) EXCEPT
                 !.task.limited = [at |-> j, batch |-> tk.signals,
                                   sent |-> tk.sent, saved |-> tk.saved]]
        ELSE [bot |-> c,
              task |-> [tk EXCEPT !.pc = "sending", !.i = j, !.sent[j] = @ + 1]]

(***************************************************************************)
(* start_trading.  The sets passed to an action are the answers of the     *)
(* collaborators (market data source, analyzer, notification sink) that    *)
(* the specification at hand lets happen.                                  *)
(***************************************************************************)
StartTrading(t, readies) ==
    /\ task[t].pc = "idle"
    /\ \A u \in Tasks : u < t => task[u].pc # "idle"
    /\ \E ready \in readies :
        IF bot.is_active \/ ~ready
        THEN UNCHANGED <<bot, task>>
        ELSE /\ bot' = ResetCounters([bot EXCEPT !.is_active = TRUE, !.start_time = now])
             /\ task' = [task EXCEPT ![t] = [IdleTask EXCEPT !.pc = "start_notify"]]
    /\ UNCHANGED <<now, em, core, acc, an, ai, disk>>

\* telegram.send_message returns or raises; on return _main_trading_loop is entered.
StartNotify(t, raises) ==
    /\ task[t].pc = "start_notify"
    /\ \E raised \in raises :
        task' = [task EXCEPT ![t].pc = IF raised THEN "start_except" ELSE "loop"]
    /\ UNCHANGED <<now, bot, em, core, acc, an, ai, disk>>

\* The except clause of start_trading awaits telegram.send_error; the call ends
\* whether that returns or raises.
StartExcept(t) ==
    /\ task[t].pc = "start_except"
    /\ task' = [task EXCEPT ![t] = IdleTask]
    /\ UNCHANGED <<now, bot, em, core, acc, an, ai, disk>>

(***************************************************************************)
(* _main_trading_loop: the while test and the cycle up to its first await. *)
(***************************************************************************)
LoopHead(t, markets, maxCycles, maxErrors) ==
    /\ task[t].pc = "loop"
    /\ task[t].wake = NoTime
    /\ IF ~LoopTest(bot)
       THEN /\ task' = [task EXCEPT ![t] = IdleTask]
            /\ UNCHANGED bot
       ELSE IF ~CheckSafetyLimits(bot)
       THEN /\ task' = [task EXCEPT ![t].wake = Sleep(now + SafetyPause, now)]
            /\ UNCHANGED bot
       ELSE \E market \in markets :
            CASE market = "raise" ->
                    /\ bot.errors_count < maxErrors
                    /\ bot' = [bot EXCEPT !.errors_count = @ + 1, !.errors_this_hour = @ + 1]
                    /\ task' = [task EXCEPT ![t].cycle_start = now, ![t].pc = "report_error"]
              [] market = "empty" ->
                    /\ task' = [task EXCEPT ![t].wake = Sleep(now + NoDataPause, now)]
                    /\ UNCHANGED bot
              [] market = "data" ->
                    /\ bot.total_cycles < maxCycles
                    /\ task' = [task EXCEPT ![t].cycle_start = now, ![t].pc = "analyzing"]
                    /\ UNCHANGED bot
    /\ UNCHANGED <<now, em, core, acc, an, ai, disk>>

\* analyze_all_pairs returns its batch (it raises nothing); an empty batch ends the
\* cycle, any other is processed.
Analyze(t, batches) ==
    /\ task[t].pc = "analyzing"
    /\ \E b \in batches :
        LET zeros == [k \in 1..Len(b) |-> 0]
            tk == [task[t] EXCEPT !.signals = b, !.sent = zeros, !.saved = zeros,
                                  !.sendok = [k \in 1..Len(b) |-> FALSE]]
            r == IF b = <<>> THEN EndOfCycle(bot, tk, now)
                 ELSE ProcessSignals(bot, tk, 1, now)
        IN  /\ bot' = r.bot
            /\ task' = [task EXCEPT ![t] = r.task]
    /\ UNCHANGED <<now, em, core, acc, an, ai, disk>>

\* telegram.send_signal returns True or a false value, or raises.  After True the
\* signal is handed to database.save_signal; otherwise the next signal is tried.
SendSignal(t, outcomes) ==
    /\ task[t].pc = "sending"
    /\ \E outcome \in outcomes :
        IF SendSucceeded(outcome)
        THEN /\ task' = [task EXCEPT ![t].pc = "saving",
                                     ![t].sendok[task[t].i] = (outcome = "true"),
                                     ![t].saved[task[t].i] = @ + 1]
             /\ UNCHANGED bot
        ELSE LET r == ProcessSignals(bot, task[t], task[t].i + 1, now)
             IN  /\ bot' = r.bot
                 /\ task' = [task EXCEPT ![t] = r.task]
    /\ UNCHANGED <<now, em, core, acc, an, ai, disk>>

\* database.save_signal returns (it raises nothing): the signal is accepted.
SaveSignal(t) ==
    /\ task[t].pc = "saving"
    /\ LET c == [bot EXCEPT !.signals_sent_today = @ + 1,
                            !.signals_sent_hour = @ + 1,
                            !.last_signal_time = now]
           r == ProcessSignals(c, task[t], task[t].i + 1, now)
       IN  /\ bot' = r.bot
           /\ task' = [task EXCEPT ![t] = r.task]
    /\ acc' = Accepted(acc, task[t].signals[task[t].i], now)
    /\ UNCHANGED <<now, em, core, an, ai, disk>>

\* The except clause of a cycle awaits telegram.send_error.  If that raises, the
\* finally clause still waits for the next cycle and the exception leaves the loop.
ReportError(t, raises) ==
    /\ task[t].pc = "report_error"
    /\ \E raised \in raises :
        task' = [task EXCEPT ![t].pc = IF raised THEN "unwinding" ELSE "loop",
                             ![t].cycle_start = NoTime,
                             ![t].wake = Sleep(task[t].cycle_start + CycleInterval, now)]
    /\ UNCHANGED <<now, bot, em, core, acc, an, ai, disk>>

\* The exception reaches the outer except clause of _main_trading_loop, which
\* awaits telegram.send_error.
Unwind(t) ==
    /\ task[t].pc = "unwinding"
    /\ task[t].wake = NoTime
    /\ task' = [task EXCEPT ![t].pc = "main_except"]
    /\ UNCHANGED <<now, bot, em, core, acc, an, ai, disk>>

\* If that send_error raises too, the exception reaches start_trading's except clause.
MainExcept(t, raises) ==
    /\ task[t].pc = "main_except"
    /\ \E raised \in raises :
        task' = [task EXCEPT ![t] = IF raised THEN [IdleTask EXCEPT !.pc = "start_except"]
                                    ELSE IdleTask]
    /\ UNCHANGED <<now, bot, em, core, acc, an, ai, disk>>

(***************************************************************************)
(* stop_trading.  Its await of telegram.send_message follows the only      *)
(* assignment it makes.                                                    *)
(***************************************************************************)
StopTrading ==
    /\ bot.is_active
    /\ bot' = [bot EXCEPT !.is_active = FALSE]
    /\ UNCHANGED <<now, task, em, core, acc, an, ai, disk>>

(***************************************************************************)
(* emergency_shutdown: the flags, then the notification, then              *)
(* core.shutdown(), which runs without suspending (the simulated           *)
(* connection has nothing to close) and saves the model.                   *)
(***************************************************************************)
CoreShutdown(c) == [c EXCEPT !.is_running = FALSE, !.ws_running = FALSE, !.ws_connected = FALSE]

EmergencyShutdown ==
    /\ em = "idle"
    /\ bot' = [bot EXCEPT !.emergency_stop = TRUE, !.is_active = FALSE]
    /\ em' = "notify"
    /\ UNCHANGED <<now, task, core, acc, an, ai, disk>>

\* telegram.send_message returns or raises; the except clause only logs.
EmergencyNotify(raises) ==
    /\ em = "notify"
    /\ \E raised \in raises :
        /\ core' = IF raised THEN core ELSE CoreShutdown(core)
        /\ disk' = IF raised THEN disk ELSE SaveDocument(ai)
    /\ em' = "idle"
    /\ UNCHANGED <<now, bot, task, acc, an, ai>>

\* A sleep that ends at w, seen at time t.
Due(w, t) == IF w <= t THEN NoTime ELSE w

\* The clock reaches t; the sleeps that end by then are over.
ClockReaches(t) ==
    /\ now' = t
    /\ task' = [u \in Tasks |-> [task[u] EXCEPT !.wake = Due(@, t)]]
    /\ core' = [core EXCEPT !.retrain_wake = Due(@, t), !.monitor_wake = Due(@, t)]
    /\ UNCHANGED <<bot, em, acc, an, ai, disk>>

\* Time passes.
Tick(step, horizon) ==
    /\ now + step <= horizon
    /\ ClockReaches(now + step)

\* Time passes while task t sleeps.
SleepThrough(t, step, horizon) ==
    /\ task[t].wake # NoTime
    /\ Tick(step, horizon)

\* Time passes until the asyncio.sleep of task t ends.  The clock is counted up
\* to the horizon: now = horizon stands for every later time as well, at which
\* the sleep of t, and no sleep that ends later, is over.
WakeTask(t, horizon) ==
    /\ task[t].wake # NoTime
    /\ LET w == Min(task[t].wake, horizon)
       IN  /\ now' = w
           /\ task' = [u \in Tasks |->
                        [task[u] EXCEPT !.wake = IF u = t THEN NoTime ELSE Due(@, w)]]
           /\ core' = [core EXCEPT !.retrain_wake = Due(@, w), !.monitor_wake = Due(@, w)]
    /\ UNCHANGED <<bot, em, acc, an, ai, disk>>

\* The same for the sleep of _ai_retrain_loop.
WakeRetrain(horizon) ==
    /\ core.retrain_wake # NoTime
    /\ LET w == Min(core.retrain_wake, horizon)
       IN  /\ now' = w
           /\ task' = [u \in Tasks |-> [task[u] EXCEPT !.wake = Due(@, w)]]
           /\ core' = [core EXCEPT !.retrain_wake = NoTime, !.monitor_wake = Due(@, w)]
    /\ UNCHANGED <<bot, em, acc, an, ai, disk>>

\* The same for the sleep of _performance_monitoring_loop.
WakeMonitor(horizon) ==
    /\ core.monitor_wake # NoTime
    /\ LET w == Min(core.monitor_wake, horizon)
       IN  /\ now' = w
           /\ task' = [u \in Tasks |-> [task[u] EXCEPT !.wake = Due(@, w)]]
           /\ core' = [core EXCEPT !.monitor_wake = NoTime, !.retrain_wake = Due(@, w)]
    /\ UNCHANGED <<bot, em, acc, an, ai, disk>>

(***************************************************************************)
(* TradingCore.start_trading creates the background tasks and sets          *)
(* is_running before any of them runs.                                     *)
(***************************************************************************)
CoreStartTrading ==
    /\ core.retrain_pc = "idle"
    /\ core.monitor_pc = "idle"
    /\ core' = [core EXCEPT !.is_running = TRUE, !.retrain_pc = "test", !.monitor_pc = "test"]
    /\ UNCHANGED <<now, bot, task, em, acc, an, ai, disk>>

\* _ai_retrain_loop: while self.is_running, then the sleep of one hour.
RetrainTest ==
    /\ core.retrain_pc = "test"
    /\ core.retrain_wake = NoTime
    /\ core' = IF core.is_running
               THEN [core EXCEPT !.retrain_pc = "sleep",
                                 !.retrain_wake = Sleep(now + RetrainInterval, now)]
               ELSE [core EXCEPT !.retrain_pc = "done"]
    /\ UNCHANGED <<now, bot, task, em, acc, an, ai, disk>>

\* After the sleep: break if is_running is false, else retrain_model and
\* save_model (they run without suspending); an exception is followed by a pause.
Retrain(raises) ==
    /\ core.retrain_pc = "sleep"
    /\ core.retrain_wake = NoTime
    /\ \E raised \in raises :
        /\ core' = IF ~core.is_running
                   THEN [core EXCEPT !.retrain_pc = "done"]
                   ELSE [core EXCEPT !.retrain_pc = "test",
                                     !.retrain_wake = IF raised
                                                      THEN Sleep(now + BackgroundErrorPause, now)
                                                      ELSE NoTime]
        /\ ai' = IF core.is_running /\ ~raised THEN RetrainModel(ai) ELSE ai
        /\ disk' = IF core.is_running /\ ~raised THEN SaveDocument(RetrainModel(ai)) ELSE disk
    /\ UNCHANGED <<now, bot, task, em, acc, an>>

\* _performance_monitoring_loop: while self.is_running, then the sleep of 30 minutes.
MonitorTest ==
    /\ core.monitor_pc = "test"
    /\ core.monitor_wake = NoTime
    /\ core' = IF core.is_running
               THEN [core EXCEPT !.monitor_pc = "sleep",
                                 !.monitor_wake = Sleep(now + MonitorInterval, now)]
               ELSE [core EXCEPT !.monitor_pc = "done"]
    /\ UNCHANGED <<now, bot, task, em, acc, an, ai, disk>>

\* After the sleep: break if is_running is false, else the statistics are
\* collected and handed to telegram.send_daily_stats.
MonitorCollect ==
    /\ core.monitor_pc = "sleep"
    /\ core.monitor_wake = NoTime
    /\ core' = [core EXCEPT !.monitor_pc = IF core.is_running THEN "report" ELSE "done"]
    /\ UNCHANGED <<now, bot, task, em, acc, an, ai, disk>>

\* telegram.send_daily_stats returns or raises; an exception is followed by a pause.
MonitorReport(raises) ==
    /\ core.monitor_pc = "report"
    /\ \E raised \in raises :
        core' = [core EXCEPT !.monitor_pc = "test",
                             !.monitor_wake = IF raised
                                              THEN Sleep(now + BackgroundErrorPause, now)
                                              ELSE NoTime]
    /\ UNCHANGED <<now, bot, task, em, acc, an, ai, disk>>

\* TradingCore.shutdown called by its owner (main.py).
CoreShutdownCalled ==
    /\ core.is_running
    /\ core' = CoreShutdown(core)
    /\ disk' = SaveDocument(ai)
    /\ UNCHANGED <<now, bot, task, em, acc, an, ai>>

\* One run of analyze_all_pairs over the snapshot, at the current time.
AnalyzerRun(maxRuns) ==
    /\ Len(an.runs) < maxRuns
    /\ LET hour == HourOfDay(now)
       IN  an' = [an EXCEPT !.runs = Append(@, [hour |-> hour,
                                                results |-> PairResults(an.snapshot, hour),
                                                batch |-> AnalyzeAllPairs(an.snapshot, hour)])]
    /\ UNCHANGED <<now, bot, task, em, core, acc, ai, disk>>

\* The one call of start_trading that main.py makes.
FirstStart ==
    /\ bot.start_time = NoTime
    /\ StartTrading(1, {TRUE})

(***************************************************************************)
(* Spec: one start_trading task, every answer of the collaborators,        *)
(* stop_trading and emergency_shutdown at any await.                       *)
(***************************************************************************)
Next ==
    \/ StartTrading(1, BOOLEAN)
    \/ StartNotify(1, BOOLEAN)
    \/ StartExcept(1)
    \/ LoopHead(1, {"raise", "empty", "data"}, MaxCycles, MaxErrors)
    \/ Analyze(1, Batches(now, MaxBatch))
    \/ SendSignal(1, {"true", "false", "raise"})
    \/ SaveSignal(1)
    \/ ReportError(1, BOOLEAN)
    \/ Unwind(1)
    \/ MainExcept(1, BOOLEAN)
    \/ StopTrading
    \/ EmergencyShutdown
    \/ EmergencyNotify(BOOLEAN)
    \/ Tick(TickStep, Horizon)

Spec == Init /\ [][Next]_vars

(***************************************************************************)
(* DualSpec: start_trading is called again while an earlier call is still  *)
(* inside the loop (after a stop_trading), so two tasks run the loop.      *)
(* The collaborators answer normally.                                      *)
(***************************************************************************)
DualHorizon == StartClock + MaxDualTicks * TickStep

DualNext ==
    \/ \E t \in Tasks : StartTrading(t, {TRUE})
    \/ \E t \in Tasks : StartNotify(t, {FALSE})
    \/ \E t \in Tasks : LoopHead(t, {"data"}, MaxDualCycles, 0)
    \/ \E t \in Tasks : Analyze(t, StrongBatches(now, 1))
    \/ \E t \in Tasks : SendSignal(t, {"true", "false"})
    \/ \E t \in Tasks : SaveSignal(t)
    \/ StopTrading
    \/ Tick(TickStep, DualHorizon)

DualSpec == Init /\ [][DualNext]_vars

(***************************************************************************)
(* RateSpec: one task over many hours.  The controller is constructed ten  *)
(* minutes before midnight and started at once; every call returns at      *)
(* once and the loop sleeps ten minutes between two cycles; every cycle    *)
(* finds one strong signal and every send succeeds; nobody calls           *)
(* stop_trading.                                                           *)
(***************************************************************************)
RateTick == 10 * MinSignalInterval
RateStart == DaySeconds - RateTick
RateHorizon == RateStart + MaxRateTicks * RateTick

RateNext ==
    \/ StartTrading(1, {TRUE})
    \/ StartNotify(1, {FALSE})
    \/ LoopHead(1, {"data"}, MaxRateCycles, 0)
    \/ Analyze(1, {b \in StrongBatches(now, 1) : b # <<>>})
    \/ SendSignal(1, {"true"})
    \/ SaveSignal(1)
    \/ SleepThrough(1, RateTick, RateHorizon)

RateSpec == InitAt(RateStart) /\ [][RateNext]_vars

(***************************************************************************)
(* PauseSpec: one task whose cycles may fail (the market data source       *)
(* raises, answers nothing, or answers).  The error reports are delivered, *)
(* the analyzer finds no signal, nobody calls stop_trading.  Every task    *)
(* that can run does run and every sleep ends (the asyncio event loop).    *)
(***************************************************************************)
MaxPauseCycles == 2
PauseHorizon == DaySeconds + SafetyPause

PauseNext ==
    \/ FirstStart
    \/ StartNotify(1, {FALSE})
    \/ LoopHead(1, {"raise", "empty", "data"}, MaxPauseCycles, MaxErrorsPerHour)
    \/ Analyze(1, {<<>>})
    \/ ReportError(1, {FALSE})
    \/ WakeTask(1, PauseHorizon)

PauseFairness ==
    /\ WF_vars(FirstStart)
    /\ WF_vars(StartNotify(1, {FALSE}))
    /\ WF_vars(LoopHead(1, {"raise", "empty", "data"}, MaxPauseCycles, MaxErrorsPerHour))
    /\ WF_vars(Analyze(1, {<<>>}))
    /\ WF_vars(ReportError(1, {FALSE}))
    /\ WF_vars(WakeTask(1, PauseHorizon))

PauseSpec == InitAt(RateStart) /\ [][PauseNext]_vars /\ PauseFairness

(***************************************************************************)
(* LoopsSpec: the controller loop and the two background loops of the      *)
(* core.  stop_trading and TradingCore.shutdown may be called at any time  *)
(* (or never); start_trading is called once.  Every task that can run does *)
(* run and every sleep ends.                                               *)
(***************************************************************************)
MaxLoopsTicks == 2
MaxLoopsCycles == 1
LoopsHorizon == StartClock + MaxLoopsTicks * CycleInterval

LoopsNext ==
    \/ FirstStart
    \/ StartNotify(1, {FALSE})
    \/ LoopHead(1, {"empty", "data"}, MaxLoopsCycles, 0)
    \/ Analyze(1, {<<>>})
    \/ StopTrading
    \/ CoreStartTrading
    \/ RetrainTest
    \/ Retrain({FALSE})
    \/ MonitorTest
    \/ MonitorCollect
    \/ MonitorReport(BOOLEAN)
    \/ CoreShutdownCalled
    \/ WakeTask(1, LoopsHorizon)
    \/ WakeRetrain(LoopsHorizon)
    \/ WakeMonitor(LoopsHorizon)

LoopsFairness ==
    /\ WF_vars(FirstStart)
    /\ WF_vars(StartNotify(1, {FALSE}))
    /\ WF_vars(LoopHead(1, {"empty", "data"}, MaxLoopsCycles, 0))
    /\ WF_vars(Analyze(1, {<<>>}))
    /\ WF_vars(CoreStartTrading)
    /\ WF_vars(RetrainTest)
    /\ WF_vars(Retrain({FALSE}))
    /\ WF_vars(MonitorTest)
    /\ WF_vars(MonitorCollect)
    /\ WF_vars(MonitorReport(BOOLEAN))
    /\ WF_vars(WakeTask(1, LoopsHorizon))
    /\ WF_vars(WakeRetrain(LoopsHorizon))
    /\ WF_vars(WakeMonitor(LoopsHorizon))

LoopsSpec == Init /\ [][LoopsNext]_vars /\ LoopsFairness

(***************************************************************************)
(* ScoreSpec: the analyzer runs over one market snapshot, more than once,  *)
(* while time passes.  The predictor's weights and history do not change   *)
(* (base and hist are part of the snapshot).                               *)
(***************************************************************************)
MaxRuns == 2

ScoreInit ==
    /\ now = StartClock
    /\ bot = NewBot(StartClock)
    /\ task = [u \in Tasks |-> IdleTask]
    /\ em = "idle"
    /\ core = NewCore
    /\ acc = NewAcc
    /\ an \in {NewAn(snapshot) : snapshot \in [Keys -> KeyInputs]}
    /\ ai = NewPredictor
    /\ disk = NoFile

ScoreNext ==
    \/ AnalyzerRun(MaxRuns)
    \/ Tick(TickStep, Horizon)

ScoreSpec == ScoreInit /\ [][ScoreNext]_vars

(***************************************************************************)
(* GatherSpec: analyze_all_pairs creates one _analyze_pair_timeframe       *)
(* coroutine for every key present in the market data and awaits them all  *)
(* with asyncio.gather; the coroutines complete in any order.              *)
(***************************************************************************)
MinCandles == 200
MaxGatherRuns == 1

\* Every candle count is taken for enough.
AnyCandles(candles) == TRUE

\* if len(data) < 200: return {}
EnoughCandles(candles) == ~(candles < MinCandles)

\* _analyze_pair_timeframe for one key: d is the state of its candle frame
\* (present in market_data, number of candles, what calculate_all_indicators
\* does with it) and f the level readings.
AnalyzePairTimeframe(pair, timeframe, d, f, hour) ==
    IF ~EnoughCandles(d.candles) THEN NoSignal
    ELSE IF d.indicators = "raises" THEN NoSignal
    ELSE IF d.indicators = "empty" THEN NoSignal
    ELSE ApplyQuantumPrecisionV2(pair, timeframe, f, hour)

\* The tasks analyze_all_pairs creates: the keys present in market_data, in the
\* order of the two for loops.
GatherTasks(data) == {j \in DOMAIN KeyOrder : data[KeyOrder[j]].present}

\* The results of gather, in the order of the tasks.
RECURSIVE GatherResults(_, _, _)
GatherResults(results, tasks, j) ==
    IF j > Len(KeyOrder) THEN <<>>
    ELSE (IF j \in tasks THEN <<results[j]>> ELSE <<>>)
         \o GatherResults(results, tasks, j + 1)

DataStates ==
    [present : BOOLEAN, candles : {MinCandles - 1, MinCandles},
     indicators : {"ok", "empty", "raises"}]

GatherInputs == {f \in KeyInputs : f.base = 10000 /\ f.hist = 8000 /\ f.pattern}

NewGather(snapshot, data) ==
    [snapshot |-> snapshot, data |-> data, pc |-> "idle", pending |-> {},
     results |-> [j \in DOMAIN KeyOrder |-> NoSignal], runs |-> <<>>]

GatherInit ==
    /\ now = StartClock
    /\ bot = NewBot(StartClock)
    /\ task = [u \in Tasks |-> IdleTask]
    /\ em = "idle"
    /\ core = NewCore
    /\ acc = NewAcc
    /\ an \in {NewGather(snapshot, data) :
                    snapshot \in [Keys -> GatherInputs], data \in [Keys -> DataStates]}
    /\ ai = NewPredictor
    /\ disk = NoFile

\* analyze_all_pairs up to its await of asyncio.gather.
GatherStart ==
    /\ an.pc = "idle"
    /\ Len(an.runs) < MaxGatherRuns
    /\ an' = [an EXCEPT !.pc = "gathering", !.pending = GatherTasks(an.data)]
    /\ UNCHANGED <<now, bot, task, em, core, acc, ai, disk>>

\* One of the coroutines runs to its return.
EvalKey ==
    /\ an.pc = "gathering"
    /\ \E j \in an.pending :
        an' = [an EXCEPT !.pending = @ \ {j},
                         !.results[j] = AnalyzePairTimeframe(KeyOrder[j][1], KeyOrder[j][2],
                                            an.data[KeyOrder[j]], an.snapshot[KeyOrder[j]],
                                            HourOfDay(now))]
    /\ UNCHANGED <<now, bot, task, em, core, acc, ai, disk>>

\* gather returns when every coroutine has returned; the results that carry a
\* signal are collected and sorted.
GatherDone ==
    /\ an.pc = "gathering"
    /\ an.pending = {}
    /\ LET tasks == GatherTasks(an.data)
           results == GatherResults(an.results, tasks, 1)
       IN  an' = [an EXCEPT !.pc = "idle",
                            !.runs = Append(@, [tasks |-> tasks,
                                                batch |-> SortByAccuracy(
                                                    SelectSeq(results, LAMBDA r : r.signal))])]
    /\ UNCHANGED <<now, bot, task, em, core, acc, ai, disk>>

GatherNext ==
    \/ GatherStart
    \/ EvalKey
    \/ GatherDone

GatherSpec == GatherInit /\ [][GatherNext]_vars

(***************************************************************************)
(* ModelSpec: one AIPredictor and the model file.  The file found at the   *)
(* start is any of StartFiles; load_model, update_model_performance,       *)
(* retrain_model and save_model are called in any order.  In this          *)
(* specification acc records the last call and the predictor before it.    *)
(***************************************************************************)
MaxModelUpdates == 2

\* Ten performance records with the given number of hits, the hits first.
TenRecords(hits) ==
    [i \in 1..MinRetrainRecords |-> [n |-> 0 - i, accuracy |-> IF i <= hits THEN 1 ELSE 0]]

\* Weights that sum to 2, and weights that are all zero.
DoubleWeights == [num |-> DefaultWeights.num, den |-> 50]
ZeroWeights == [num |-> [f \in Features |-> 0], den |-> 1]

StartFiles ==
    {NoFile, [NoFile EXCEPT !.kind = "corrupt"], [NoFile EXCEPT !.kind = "not_object"],
     [NoFile EXCEPT !.kind = "object"],
     [NoFile EXCEPT !.kind = "object", !.fields = {"weights"}, !.weights = DoubleWeights]}
    \cup {[NoFile EXCEPT !.kind = "object", !.fields = DocumentFields, !.weights = w,
                         !.performance_history = TenRecords(hits)] :
            w \in {DefaultWeights, DoubleWeights, ZeroWeights}, hits \in {0, 7, 10}}

ModelInit ==
    /\ now = StartClock
    /\ bot = NewBot(StartClock)
    /\ task = [u \in Tasks |-> IdleTask]
    /\ em = "idle"
    /\ core = NewCore
    /\ acc = [last |-> "init", before |-> NewPredictor, updates |-> 0]
    /\ an = NewAn([k \in Keys |-> QuietInputs])
    /\ ai = NewPredictor
    /\ disk \in StartFiles

LoadModelCall ==
    /\ ai' = LoadModel(ai, disk)
    /\ acc' = [acc EXCEPT !.last = "load", !.before = ai]
    /\ UNCHANGED <<now, bot, task, em, core, an, disk>>

UpdateCall(maxUpdates) ==
    /\ acc.updates < maxUpdates
    /\ \E key \in Keys, accuracy \in {0, 1} :
        ai' = UpdateModelPerformance(ai, key, [n |-> acc.updates + 1, accuracy |-> accuracy])
    /\ acc' = [acc EXCEPT !.last = "update", !.before = ai, !.updates = @ + 1]
    /\ UNCHANGED <<now, bot, task, em, core, an, disk>>

RetrainCall ==
    /\ ai' = RetrainModel(ai)
    /\ acc' = [acc EXCEPT !.last = "retrain", !.before = ai]
    /\ UNCHANGED <<now, bot, task, em, core, an, disk>>

SaveModelCall ==
    /\ disk' = SaveDocument(ai)
    /\ acc' = [acc EXCEPT !.last = "save", !.before = ai]
    /\ UNCHANGED <<now, bot, task, em, core, an, ai>>

ModelNext ==
    \/ LoadModelCall
    \/ UpdateCall(MaxModelUpdates)
    \/ RetrainCall
    \/ SaveModelCall

ModelSpec == ModelInit /\ [][ModelNext]_vars

(***************************************************************************)
(* HistorySpec: a predictor is constructed and loads the model file, as    *)
(* TradingCore._initialize_ai_predictor does; update_model_performance is  *)
(* then called for one key after the other along a schedule, until the     *)
(* model is saved and loaded into a new predictor.  In this specification  *)
(* acc also records every result that was appended, with its key.          *)
(***************************************************************************)
MaxHistoryUpdates == 1002

Schedules == {"one_key", "alternate", "every_tenth"}

\* The key of the n-th call.
ScheduledKey(schedule, n) ==
    IF schedule = "one_key" THEN KeyOrder[1]
    ELSE IF schedule = "alternate" THEN KeyOrder[1 + (n % 2)]
    ELSE IF n % 10 = 0 THEN KeyOrder[2] ELSE KeyOrder[1]

HistoryInit ==
    /\ now = StartClock
    /\ bot = NewBot(StartClock)
    /\ task = [u \in Tasks |-> IdleTask]
    /\ em = "idle"
    /\ core = NewCore
    /\ an = NewAn([k \in Keys |-> QuietInputs])
    /\ disk \in {NoFile,
                 [NoFile EXCEPT !.kind = "object", !.fields = {"weights"}, !.weights = DoubleWeights]}
    /\ ai = LoadModel(NewPredictor, disk)
    /\ \E schedule \in Schedules :
        acc = [last |-> "init", before |-> NewPredictor, updates |-> 0,
               schedule |-> schedule, log |-> <<>>]

HistoryUpdate ==
    /\ acc.last \in {"init", "update"}
    /\ acc.updates < MaxHistoryUpdates
    /\ LET n == acc.updates + 1
           key == ScheduledKey(acc.schedule, n)
           result == [n |-> n, accuracy |-> IF n % 4 = 0 THEN 0 ELSE 1]
       IN  /\ ai' = UpdateModelPerformance(ai, key, result)
           /\ acc' = [acc EXCEPT !.last = "update", !.before = ai, !.updates = n,
                                 !.log = Append(@, [key |-> key, result |-> result])]
    /\ UNCHANGED <<now, bot, task, em, core, an, disk>>

HistorySave ==
    /\ acc.last = "update"
    /\ disk' = SaveDocument(ai)
    /\ acc' = [acc EXCEPT !.last = "save", !.before = ai]
    /\ UNCHANGED <<now, bot, task, em, core, an, ai>>

\* A new predictor loads the file that was saved.
HistoryRestore ==
    /\ acc.last = "save"
    /\ ai' = LoadModel(NewPredictor, disk)
    /\ acc' = [acc EXCEPT !.last = "restore", !.before = ai]
    /\ UNCHANGED <<now, bot, task, em, core, an, disk>>

HistoryNext ==
    \/ HistoryUpdate
    \/ HistorySave
    \/ HistoryRestore

HistorySpec == HistoryInit /\ [][HistoryNext]_vars

(***************************************************************************)
(* PredictSpec: AIPredictor.predict as a function of the normalized        *)
(* feature vector, the weights, the history of the key, the hour of the    *)
(* day and the steps in which something raises.  A feature value is in     *)
(* hundredths, a signal strength in tenths, a prediction in units of       *)
(* 1/One.  Every step has its own except clause; predict has one more.     *)
(***************************************************************************)
MinFeatures == 15
MinHistory == 5
MaxPredictCalls == 2

PredictSteps == {"normalization", "base", "historical", "time", "market", "predict"}

\* A signal strength of 1.0 for every feature.
FullStrength(feature_name, value) == 10

\* _feature_to_signal
FeatureToSignal(feature_name, value) ==
    CASE feature_name = "rsi" -> (IF value < 30 THEN 8 ELSE IF value > 70 THEN 2 ELSE 5)
      [] feature_name = "macd" -> (IF value > 0 THEN 7 ELSE 3)
      [] feature_name = "volume_ratio" ->
            (IF value > 60 THEN 8 ELSE IF value < 20 THEN 3 ELSE 5)
      [] feature_name = "bb_position" ->
            (IF value < 20 THEN 8 ELSE IF value > 80 THEN 2 ELSE 5)
      [] feature_name = "vwap_gradient" -> (IF value > 0 THEN 7 ELSE 3)
      [] feature_name = "price_momentum" -> (IF value > 0 THEN 7 ELSE 3)
      [] feature_name = "volume_momentum" -> (IF value > 0 THEN 6 ELSE 4)
      [] feature_name = "volatility" -> (IF 10 < value /\ value < 50 THEN 6 ELSE 4)
      [] OTHER -> 5

\* prediction += signal_strength * weight, over the weights; in tenths of w.den.
RECURSIVE WeightedSignals(_, _, _)
WeightedSignals(feature_map, num, S) ==
    IF S = {} THEN 0
    ELSE LET f == CHOOSE x \in S : TRUE
         IN  FeatureToSignal(f, feature_map[f]) * num[f]
             + WeightedSignals(feature_map, num, S \ {f})

\* _normalize_features: its except clause returns np.zeros_like(features).
NormalizeFeatures(features, raises) ==
    IF raises THEN [features EXCEPT !.map = [f \in Features |-> 0]] ELSE features

\* _calculate_base_prediction: 0.5 for a short vector and in its except clause.
CalculateBasePrediction(features, w, raises) ==
    IF raises THEN One \div 2
    ELSE IF features.length < MinFeatures THEN One \div 2
    ELSE Clamp((WeightedSignals(features.map, w.num, Features) * (One \div 10)) \div w.den)

\* _get_historical_correction: the mean accuracy of the last 10 records of the
\* key plus 0.1 times the last change, clamped; 0.5 with fewer than 5 records
\* and in its except clause.
GetHistoricalCorrection(history, raises) ==
    IF raises THEN One \div 2
    ELSE IF Len(history) < MinHistory THEN One \div 2
    ELSE LET recent == LastN(history, 10)
             trend == history[Len(history)].accuracy - history[Len(history) - 1].accuracy
         IN  Clamp((Hits(recent) * One) \div Len(recent) + trend * (One \div 10))

\* _get_market_correction
GetMarketCorrection(features, raises) ==
    IF raises THEN One \div 2
    ELSE IF features.map["volatility"] > 30 THEN 4000
    ELSE IF features.map["volatility"] < 10 THEN 6000
    ELSE One \div 2

\* predict, with the set of steps in which something raises.
AiPredict(features, w, history, hour, raising) ==
    LET normalized == NormalizeFeatures(features, "normalization" \in raising)
        f == [base |-> CalculateBasePrediction(normalized, w, "base" \in raising),
              hist |-> GetHistoricalCorrection(history, "historical" \in raising),
              market |-> GetMarketCorrection(normalized, "market" \in raising)]
    IN  IF "predict" \in raising THEN One \div 2
        ELSE IF "time" \in raising
             THEN Clamp((6 * f.base + 2 * f.hist + One \div 2 + f.market) \div 10)
             ELSE Predict(f, hour)

\* The normalized feature vectors the calls are given.
FeatureVectors ==
    {[length |-> length,
      map |-> [rsi |-> rsi, macd |-> macd, volume_ratio |-> 50, bb_position |-> 50,
               vwap_gradient |-> 10, price_momentum |-> 10, volume_momentum |-> 10,
               volatility |-> volatility]] :
        length \in {MinFeatures - 1, MinFeatures}, rsi \in {20, 50, 80},
        macd \in {0 - 10, 10}, volatility \in {5, 20, 40}}

\* Five records of one key with the given number of hits, the misses first.
FiveRecords(hits) ==
    [i \in 1..MinHistory |->
        [n |-> 0 - i, accuracy |-> IF i > MinHistory - hits THEN 1 ELSE 0]]

PredictInit ==
    /\ now = StartClock
    /\ bot = NewBot(StartClock)
    /\ task = [u \in Tasks |-> IdleTask]
    /\ em = "idle"
    /\ core = NewCore
    /\ acc = NewAcc
    /\ disk = NoFile
    /\ \E w \in {DefaultWeights, DoubleWeights}, history \in {<<>>, FiveRecords(5), FiveRecords(0)} :
        ai = [NewPredictor EXCEPT !.model_weights = w,
                                  !.historical_data[KeyOrder[1]] = history]
    /\ \E features \in FeatureVectors :
        an = [features |-> features, calls |-> <<>>]

\* One call of predict for the first key.
PredictCall ==
    /\ Len(an.calls) < MaxPredictCalls
    /\ \E raising \in {{}} \cup {{step} : step \in PredictSteps} :
        an' = [an EXCEPT !.calls = Append(@,
                  [raising |-> raising, hour |-> HourOfDay(now),
                   value |-> AiPredict(an.features, ai.model_weights,
                                       ai.historical_data[KeyOrder[1]],
                                       HourOfDay(now), raising)])]
    /\ UNCHANGED <<now, bot, task, em, core, acc, ai, disk>>

PredictNext ==
    \/ PredictCall
    \/ Tick(TickStep, Horizon)

PredictSpec == PredictInit /\ [][PredictNext]_vars

(***************************************************************************)
(* HoldSpec: _calculate_hold_duration as a function of the timeframe and   *)
(* the accuracy, which _apply_quantum_precision_v2 passes as the final     *)
(* score in [0, 1] (here in units of 1/One).  The product is exact; the    *)
(* rounding of the floating-point product is not modelled.                 *)
(***************************************************************************)
MinHoldDuration == 5
DefaultBaseTime == 30
AccuracyStep == 500

\* base_times
BaseTimes ==
    [t \in {"1m", "5m", "15m", "30m", "1h", "4h", "1d"} |->
        CASE t = "1m" -> 5 [] t = "5m" -> 15 [] t = "15m" -> 30 [] t = "30m" -> 60
          [] t = "1h" -> 120 [] t = "4h" -> 240 [] t = "1d" -> 480]

\* TIMEFRAMES of globals.py
ConfiguredTimeframes == DOMAIN BaseTimes

\* No minimum is applied.
NoMinimumHold(hold_duration) == hold_duration

\* max(hold_duration, 5)
MinimumHold(hold_duration) == Max(hold_duration, MinHoldDuration)

CalculateHoldDuration(timeframe, accuracy) ==
    LET base_time == IF timeframe \in DOMAIN BaseTimes THEN BaseTimes[timeframe]
                     ELSE DefaultBaseTime
        \* int(base_time * (0.5 + accuracy * 0.5))
        hold_duration == (base_time * (One + accuracy)) \div (2 * One)
    IN  MinimumHold(hold_duration)

HoldInit ==
    /\ now = StartClock
    /\ bot = NewBot(StartClock)
    /\ task = [u \in Tasks |-> IdleTask]
    /\ em = "idle"
    /\ core = NewCore
    /\ acc = NewAcc
    /\ ai = NewPredictor
    /\ disk = NoFile
    /\ \E timeframe \in ConfiguredTimeframes,
          accuracy \in {a \in 0..One : a % AccuracyStep = 0 \/ a = One - 1} :
        an = [timeframe |-> timeframe, accuracy |-> accuracy, called |-> FALSE,
              hold_duration |-> 0]

HoldCall ==
    /\ ~an.called
    /\ an' = [an EXCEPT !.called = TRUE,
                        !.hold_duration = CalculateHoldDuration(an.timeframe, an.accuracy)]
    /\ UNCHANGED <<now, bot, task, em, core, acc, ai, disk>>

HoldNext ==
    \/ HoldCall

HoldSpec == HoldInit /\ [][HoldNext]_vars

(***************************************************************************)
(* The limiter inside a batch: one trading loop started at the beginning   *)
(* of a wall-clock hour, a new cycle every ten minutes, batches of up to   *)
(* MaxBatch signals with accuracies on both sides of the accuracy check,   *)
(* and a notification sink that delivers or declines.  Five deliveries     *)
(* fill the hour, and the cycle after them meets the limiter.              *)
(***************************************************************************)
MaxLimitTicks == 6
MaxLimitCycles == 7

LimitAccuracies == {80, 90, 95}
LimitStart == DaySeconds
LimitHorizon == LimitStart + MaxLimitTicks * RateTick

LimitSignalsAt(t) ==
    [pair : Pairs, timeframe : Timeframes, direction : {"BUY"},
     accuracy : LimitAccuracies, entry_time : {t}]

\* The non-empty batches analyze_all_pairs can return at time t.
LimitBatches(t) ==
    {b \in UNION {[1..k -> LimitSignalsAt(t)] : k \in 1..MaxBatch} : IsBatch(b)}

LimitNext ==
    \/ StartTrading(1, {TRUE})
    \/ StartNotify(1, {FALSE})
    \/ LoopHead(1, {"data"}, MaxLimitCycles, 0)
    \/ Analyze(1, LimitBatches(now))
    \/ SendSignal(1, {"true", "false"})
    \/ SaveSignal(1)
    \/ SleepThrough(1, RateTick, LimitHorizon)

LimitSpec == InitAt(LimitStart) /\ [][LimitNext]_vars

(***************************************************************************)
(* Failures inside a cycle: one trading loop whose notification sink       *)
(* delivers or raises, over cycles that always have market data and a      *)
(* non-empty batch.                                                        *)
(***************************************************************************)
MaxDispatchTicks == 3
MaxDispatchCycles == 4

DispatchHorizon == StartClock + MaxDispatchTicks * TickStep

DispatchNext ==
    \/ StartTrading(1, {TRUE})
    \/ StartNotify(1, {FALSE})
    \/ LoopHead(1, {"data"}, MaxDispatchCycles, 0)
    \/ Analyze(1, {b \in StrongBatches(now, MaxBatch) : b # <<>>})
    \/ SendSignal(1, {"true", "raise"})
    \/ SaveSignal(1)
    \/ SleepThrough(1, TickStep, DispatchHorizon)

DispatchSpec == Init /\ [][DispatchNext]_vars

(***************************************************************************)
(* _validate_signal on its own: a signal the analyzer emits, whole or with *)
(* one of the required fields missing, is validated by a controller whose  *)
(* last accepted signal lies a given time back.  The final score is drawn  *)
(* in whole percents, so the accuracy is round(final_score * 100, 2)       *)
(* without a fraction.                                                     *)
(***************************************************************************)
MaxValidateCalls == 1

\* Final scores around the floor of the analyzer and the floor of the controller.
FinalScores == {69000, 70000, 84000, 85000, 100000}

\* The accuracy field in percent, as the controller compares it.
AccuracyPercent(final_score) == RoundAccuracy(final_score) \div 100

\* The signal dictionary restricted to the given keys.
SignalWith(fields, final_score, t) ==
    LET whole == [pair |-> "BTCUSDT", timeframe |-> "1m", direction |-> "BUY",
                  accuracy |-> AccuracyPercent(final_score), entry_time |-> t]
    IN  [f \in fields |-> whole[f]]

FieldSets == {RequiredFields} \cup {RequiredFields \ {f} : f \in RequiredFields}

\* Seconds since the last accepted signal; NoTime when there has been none.
SinceLast == {NoTime, MinSignalInterval - 1, MinSignalInterval, MinSignalInterval + 1}

ValidateInit ==
    /\ now = StartClock
    /\ \E since \in SinceLast :
        bot = [NewBot(StartClock) EXCEPT
                  !.is_active = TRUE, !.start_time = StartClock - HourSeconds,
                  !.last_signal_time = IF since = NoTime THEN NoTime ELSE StartClock - since]
    /\ task = [u \in Tasks |-> IdleTask]
    /\ em = "idle"
    /\ core = NewCore
    /\ acc = NewAcc
    /\ \E fields \in FieldSets, final_score \in {s \in FinalScores : ScoreAccepted(s)} :
        an = [signal |-> SignalWith(fields, final_score, StartClock),
              final_score |-> final_score, calls |-> 0, valid |-> FALSE]
    /\ ai = NewPredictor
    /\ disk = NoFile

ValidateCall ==
    /\ an.calls < MaxValidateCalls
    /\ an' = [an EXCEPT !.calls = @ + 1, !.valid = ValidateSignal(an.signal, bot, now)]
    /\ UNCHANGED <<now, bot, task, em, core, acc, ai, disk>>

ValidateNext == ValidateCall

ValidateSpec == ValidateInit /\ [][ValidateNext]_vars

(***************************************************************************)
(* Level 1 from the readings it takes: the indicators volume_tsunami, roc, *)
(* atr and tsunami_strength and the relative change of the close over the  *)
(* final candle, all in units of 1/One.  The result feeds                  *)
(* _apply_quantum_precision_v2 together with a Level 2 result and the      *)
(* parts of a Level 3 prediction.                                          *)
(***************************************************************************)
VolumeTsunamiThreshold == 20000
PriceChangeThreshold == 20
RocThreshold == 1000
MinLevel1Conditions == 2
MaxLevel1Calls == 1

Abs(x) == IF x < 0 THEN 0 - x ELSE x

\* _level1_momentum_impulse, the try block: valid and impulse_strength.
Level1FromReadings(ind) ==
    LET volume_condition == ind.volume_tsunami > VolumeTsunamiThreshold
        price_change_1m == Abs(ind.pct_change)
        price_condition == price_change_1m > PriceChangeThreshold
        momentum_condition == ind.roc > RocThreshold
        volatility_condition == ind.atr > 0
        valid_conditions == (IF volume_condition THEN 1 ELSE 0)
                            + (IF price_condition THEN 1 ELSE 0)
                            + (IF momentum_condition THEN 1 ELSE 0)
                            + (IF volatility_condition THEN 1 ELSE 0)
    IN  [valid |-> valid_conditions >= MinLevel1Conditions,
         impulse_strength |->
            (4 * Min(ind.volume_tsunami, 5 * One)
             + 3 * Min(price_change_1m * 100, 2 * One)
             + 2 * Min(Abs(ind.roc), 2 * One)
             + Min(ind.tsunami_strength, 3 * One)) \div 10]

\* Readings on both sides of every threshold, the changes in both directions.
Level1Readings ==
    [volume_tsunami : {0, 5 * One}, pct_change : {0 - 200, 0, 200},
     roc : {0 - 2 * One, 0, 2 * One}, atr : {0, 100}, tsunami_strength : {0}]

\* Base predictions on both sides of one half.
Level1KeyInputs ==
    [level2 : Level2Results, base : {3000, 8000}, hist : {5000}, market : {5000},
     pattern : {FALSE}]

Level1Init ==
    /\ now = StartClock
    /\ bot = NewBot(StartClock)
    /\ task = [u \in Tasks |-> IdleTask]
    /\ em = "idle"
    /\ core = NewCore
    /\ acc = NewAcc
    /\ ai = NewPredictor
    /\ disk = NoFile
    /\ \E ind \in Level1Readings, rest \in Level1KeyInputs :
        an = [readings |-> ind, rest |-> rest, calls |-> 0,
              level1 |-> [valid |-> FALSE, impulse_strength |-> 0], result |-> NoSignal]

\* One evaluation of the first key: Level 1 from the readings, then the
\* combination of the three levels.
Level1Call ==
    /\ an.calls < MaxLevel1Calls
    /\ LET level1 == Level1FromReadings(an.readings)
           f == [level1 |-> level1, level2 |-> an.rest.level2, base |-> an.rest.base,
                 hist |-> an.rest.hist, market |-> an.rest.market,
                 pattern |-> an.rest.pattern]
       IN  an' = [an EXCEPT !.calls = @ + 1, !.level1 = level1,
                            !.result = ApplyQuantumPrecisionV2(KeyOrder[1][1], KeyOrder[1][2],
                                                               f, HourOfDay(now))]
    /\ UNCHANGED <<now, bot, task, em, core, acc, ai, disk>>

Level1Next == Level1Call

Level1Spec == Level1Init /\ [][Level1Next]_vars

(***************************************************************************)
(* Level 3 in full: _level3_ai_prediction calls predict of the analyzer's  *)
(* predictor, whose steps may raise, and has _fallback_prediction in its   *)
(* own except clause ("level3" names a failure of the body outside         *)
(* predict).  The predictor is drawn with weights that sum to 1 and with   *)
(* the histories of PredictSpec, the clock at two hours of the day.        *)
(***************************************************************************)
MaxLevel3Calls == 1

\* _fallback_prediction; bonus is the outcome of random.random() > 0.7.
FallbackPrediction(ind, bonus) ==
    LET score == (IF 20 < ind.quantum_rsi /\ ind.quantum_rsi < 80 THEN 3000 ELSE 0)
                 + (IF ind.macd_histogram > 0 - 1000 THEN 2500 ELSE 0)
                 + (IF ind.volume_ratio > 8000 THEN 2000 ELSE 0)
                 + (IF ind.ema_crossover >= 0 THEN 1500 ELSE 0)
                 + (IF ind.bb_squeeze >= 0 THEN 1000 ELSE 0)
                 + (IF bonus THEN 1000 ELSE 0)
        prediction == Min(score, One)
    IN  [valid |-> prediction >= 7500, score |-> prediction, ai_prediction |-> prediction]

\* _level3_ai_prediction with the predictor p, for the key `key`.
Level3Full(features, p, key, hour, raising, pattern, ind, bonus) ==
    IF "level3" \in raising THEN FallbackPrediction(ind, bonus)
    ELSE LET ai_prediction == AiPredict(features, p.model_weights, p.historical_data[key],
                                        hour, raising)
         IN  [valid |-> /\ ai_prediction >= SignalThreshold
                        /\ ai_prediction >= ConfidenceThreshold
                        /\ pattern,
              score |-> ai_prediction,
              ai_prediction |-> ai_prediction]

\* Weights that sum to 1: the defaults, and all the weight on one feature.
OneFeatureWeights(g) == [num |-> [f \in Features |-> IF f = g THEN 1 ELSE 0], den |-> 1]
NormalizedWeights == {DefaultWeights, OneFeatureWeights("rsi"), OneFeatureWeights("volatility")}

\* Indicators the fallback reads: all in its favour, or the RSI out of its range.
FallbackIndicators ==
    {[quantum_rsi |-> rsi, macd_histogram |-> 0, volume_ratio |-> One,
      ema_crossover |-> 0, bb_squeeze |-> 0] : rsi \in {50, 90}}

\* 23:59 and 17:00.
Level3Clocks == {StartClock, 17 * HourSeconds}

Level3Init ==
    /\ now \in Level3Clocks
    /\ bot = NewBot(StartClock)
    /\ task = [u \in Tasks |-> IdleTask]
    /\ em = "idle"
    /\ core = NewCore
    /\ acc = NewAcc
    /\ ai = NewPredictor
    /\ disk = NoFile
    /\ \E w \in NormalizedWeights, history \in {<<>>, FiveRecords(5)},
          features \in {v \in FeatureVectors : v.length = MinFeatures},
          level1 \in Level1Inputs, level2 \in Level2Results,
          ind \in FallbackIndicators :
        an = [ai_predictor |-> [NewPredictor EXCEPT !.model_weights = w,
                                                    !.historical_data[KeyOrder[1]] = history],
              features |-> features, level1 |-> level1, level2 |-> level2,
              indicators |-> ind, calls |-> 0, raising |-> {},
              level3 |-> [valid |-> FALSE, score |-> 0, ai_prediction |-> 0],
              result |-> NoSignal]

\* One evaluation of the first key, a pattern being detected.
Level3Call(raisings) ==
    /\ an.calls < MaxLevel3Calls
    /\ \E raising \in raisings :
       \E bonus \in IF "level3" \in raising THEN BOOLEAN ELSE {FALSE} :
        LET level3 == Level3Full(an.features, an.ai_predictor, KeyOrder[1], HourOfDay(now),
                                 raising, TRUE, an.indicators, bonus)
        IN  an' = [an EXCEPT !.calls = @ + 1, !.raising = raising, !.level3 = level3,
                             !.result = CombineLevels(KeyOrder[1][1], KeyOrder[1][2],
                                                      Level1MomentumImpulse([level1 |-> an.level1]),
                                                      an.level2, level3)]
    /\ UNCHANGED <<now, bot, task, em, core, acc, ai, disk>>

\* Nothing raises, or one step of predict does.
PredictorFaults == {{}} \cup {{step} : step \in PredictSteps}

Level3Next == Level3Call(PredictorFaults)

Level3Spec == Level3Init /\ [][Level3Next]_vars

(***************************************************************************)
(* The two predictors of the program.  TradingCore.initialize constructs   *)
(* the SignalAnalyzer, whose constructor makes an AIPredictor of its own,  *)
(* and then the AIPredictor of the core, which loads the model file and is *)
(* the one _ai_retrain_loop retrains and saves.  Level 3 reads the         *)
(* analyzer's.  acc records the last call as in ModelSpec; `ai` is the     *)
(* predictor of the core.                                                  *)
(***************************************************************************)
OwnerFeatures ==
    CHOOSE v \in FeatureVectors :
        v.length = MinFeatures /\ v.map["rsi"] = 20 /\ v.map["macd"] = 10
                               /\ v.map["volatility"] = 20

OwnerInit ==
    /\ now = StartClock
    /\ bot = NewBot(StartClock)
    /\ task = [u \in Tasks |-> IdleTask]
    /\ em = "idle"
    /\ core = NewCore
    /\ acc = [last |-> "init", before |-> NewPredictor, updates |-> 0]
    /\ an = [ai_predictor |-> NewPredictor, calls |-> 0,
             level3 |-> [valid |-> FALSE, score |-> 0, ai_prediction |-> 0]]
    /\ ai = NewPredictor
    /\ disk \in StartFiles

\* _level3_ai_prediction for the first key: self.ai_predictor is the analyzer's.
OwnerLevel3(maxCalls) ==
    /\ an.calls < maxCalls
    /\ an' = [an EXCEPT !.calls = @ + 1,
                        !.level3 = Level3Full(OwnerFeatures, an.ai_predictor, KeyOrder[1],
                                              HourOfDay(now), {}, TRUE,
                                              CHOOSE ind \in FallbackIndicators : TRUE, FALSE)]
    /\ acc' = [acc EXCEPT !.last = "level3", !.before = ai]
    /\ UNCHANGED <<now, bot, task, em, core, ai, disk>>

OwnerNext ==
    \/ LoadModelCall
    \/ UpdateCall(MaxModelUpdates)
    \/ RetrainCall
    \/ SaveModelCall
    \/ OwnerLevel3(MaxModelUpdates)

OwnerSpec == OwnerInit /\ [][OwnerNext]_vars

(***************************************************************************)
(* Claims.                                                                 *)
(***************************************************************************)

\* C1: the accepted signals whose acceptance time falls in one wall-clock hour
\* bucket never number more than 5.
C1_HourBucketCap == acc.in_hour <= MaxSignalsPerHour

\* C2: the accepted signals whose acceptance time falls in one calendar day never
\* number more than 40, on the day of the start and on every later day.
C2_DayBucketCap == acc.in_day <= MaxSignalsPerDay

\* C3: two accepted signals of the same pair/timeframe, of the same batch or of
\* different batches, have acceptance times at least 60 seconds apart.
C3_SameKeyInterval == acc.min_gap = NoTime \/ acc.min_gap >= MinSignalInterval

\* The body of the while loop of _main_trading_loop is entered by task t.
CycleBegins(t) ==
    /\ task[t].pc = "loop"
    /\ task[t].wake = NoTime
    /\ \/ task'[t].pc \in {"analyzing", "report_error"}
       \/ task'[t].pc = "loop" /\ task'[t].wake # NoTime

\* C4: once emergency_shutdown has set emergency_stop, the flag stays true, no
\* cycle of the main loop begins and no further signal is accepted, whatever is
\* called afterwards (start_trading included).
C4_EmergencyTerminal ==
    [][bot.emergency_stop =>
        /\ bot'.emergency_stop
        /\ \A t \in Tasks : ~CycleBegins(t)
        /\ acc' = acc]_vars

\* C5: while is_active is true and emergency_stop is false, a task that handles
\* an exception of its cycle (it reports the error to the notification sink)
\* stays in the main loop, also when the report itself raises.
C5_CycleErrorKeepsLoop ==
    [][\A t \in Tasks :
        (task[t].pc = "report_error" /\ LoopTest(bot))
            => task'[t].pc \in {"report_error", "loop"}]_vars

\* C8: within a batch, every signal is handed to telegram.send_signal at most
\* once and to database.save_signal at most once; a signal that passed validation
\* and the limiter (the one at the task's index, and the ones before it that
\* were tried) was sent exactly once; it was saved exactly when its send
\* returned True; the signals after the index were neither sent nor saved.
C8_ExactlyOnce ==
    \A t \in Tasks : \A k \in DOMAIN task[t].signals :
        /\ task[t].sent[k] <= 1
        /\ task[t].saved[k] <= 1
        /\ task[t].saved[k] = 1 <=> task[t].sendok[k]
        /\ task[t].saved[k] = 1 => task[t].sent[k] = 1
        /\ k = task[t].i => task[t].sent[k] = 1
        /\ k > task[t].i => task[t].sent[k] = 0 /\ task[t].saved[k] = 0

\* A batch of two candidates: the send of the first returned a false value (sent,
\* not saved), the send of the second returned True (sent, saved once).
C8_Witness ==
    \E t \in Tasks :
        /\ task[t].pc = "saving"
        /\ task[t].i = 2
        /\ task[t].sent = <<1, 1>>
        /\ task[t].saved = <<0, 1>>
        /\ task[t].sendok = <<FALSE, TRUE>>

\* C6: when errors_this_hour has reached the hourly error budget the main loop
\* stays in its loop (it pauses and tests again), and from then on the hourly error
\* counter is eventually reset and a cycle eventually reaches the analyzer again.
C6_BudgetPauseResumes ==
    /\ [](bot.errors_this_hour >= MaxErrorsPerHour => task[1].pc \in {"loop", "report_error"})
    /\ (bot.errors_this_hour >= MaxErrorsPerHour)
            ~> (bot.errors_this_hour < MaxErrorsPerHour /\ task[1].pc = "analyzing")

\* The running flag of the controller, or that of the core, has been cleared.
ControllerStopped == bot.start_time # NoTime /\ ~bot.is_active
CoreStopped == core.retrain_pc # "idle" /\ ~core.is_running

\* C7: once stop_trading has cleared the controller's flag or shutdown has
\* cleared the core's, the controller main loop, the retrain loop and the
\* monitoring loop all eventually have exited.
C7_SharedRunningFlag ==
    (ControllerStopped \/ CoreStopped)
        ~> (/\ task[1].pc = "idle"
            /\ core.retrain_pc = "done"
            /\ core.monitor_pc = "done")

\* C9: in every run, the evaluation of a (pair, timeframe) returned a signal
\* exactly when at least 2 of its 3 level results were valid and
\* min(0.3*L1 + 0.3*L2 + 0.4*L3 (+0.05 when all three scores exceed 0.8), 1.0)
\* was at least 0.70; otherwise it returned the empty result.
C9_SignalIffLevelsAndScore ==
    \A i \in DOMAIN an.runs : \A j \in DOMAIN KeyOrder :
        LET f == an.snapshot[KeyOrder[j]]
            l1 == Level1MomentumImpulse(f)
            l2 == f.level2
            l3 == Level3AiPrediction(f, an.runs[i].hour)
            valid == Cardinality({n \in 1..3 : <<l1, l2, l3>>[n].valid})
            weighted == 3 * l1.score + 3 * l2.score + 4 * l3.score
            all_high == l1.score > 8000 /\ l2.score > 8000 /\ l3.score > 8000
            final == Min(IF all_high THEN weighted + 5000 ELSE weighted, 100000)
        IN  /\ an.runs[i].results[j].signal <=> (valid >= 2 /\ final >= 70000)
            /\ ~an.runs[i].results[j].signal => an.runs[i].results[j] = NoSignal

\* A run in which one key was given a signal with two valid levels, and the
\* other none although two of its levels were valid (its score was too low).
C9_Witness ==
    \E i \in DOMAIN an.runs :
        /\ an.runs[i].results[1].signal
        /\ ~an.snapshot[KeyOrder[1]].level1.valid
        /\ ~an.runs[i].results[2].signal
        /\ an.snapshot[KeyOrder[2]].level1.valid
        /\ an.snapshot[KeyOrder[2]].level2.valid

\* C10: two runs of analyze_all_pairs over the same snapshot, weights and
\* history return the same batch (keys, directions, accuracies, order),
\* whatever the wall-clock time of each run.
C10_SameBatch ==
    \A i, j \in DOMAIN an.runs : an.runs[i].batch = an.runs[j].batch

\* The signal the evaluation of key j produces in the given state of the market
\* data, if it produces one.
C11_Produces(j) ==
    /\ an.data[KeyOrder[j]].present
    /\ an.data[KeyOrder[j]].candles >= 200
    /\ an.data[KeyOrder[j]].indicators = "ok"
    /\ ApplyQuantumPrecisionV2(KeyOrder[j][1], KeyOrder[j][2],
                               an.snapshot[KeyOrder[j]], HourOfDay(now)).signal

\* C11: every batch analyze_all_pairs returns holds exactly the signals of the
\* keys whose evaluation produced one (a key that is absent, has fewer than 200
\* candles, whose indicators fail or are empty contributes nothing and removes
\* nothing), once each, in non-increasing accuracy; and it is returned only
\* when every evaluation of the tick has completed.
C11_BatchIsTheProducedSignals ==
    /\ an.pc = "idle" => an.pending = {}
    /\ \A i \in DOMAIN an.runs :
        LET batch == an.runs[i].batch
            produced == {j \in DOMAIN KeyOrder : C11_Produces(j)}
        IN  /\ Len(batch) = Cardinality(produced)
            /\ \A j \in produced : \E k \in DOMAIN batch :
                    batch[k] = ApplyQuantumPrecisionV2(KeyOrder[j][1], KeyOrder[j][2],
                                   an.snapshot[KeyOrder[j]], HourOfDay(now))
            /\ \A k \in DOMAIN batch : \A l \in DOMAIN batch :
                    k < l => batch[k].accuracy >= batch[l].accuracy

\* A batch of two signals in which the second key's signal comes first: it has
\* the higher accuracy.
C11_Witness ==
    \E i \in DOMAIN an.runs :
        /\ Len(an.runs[i].batch) = 2
        /\ an.runs[i].batch[1].timeframe = KeyOrder[2][2]
        /\ an.runs[i].batch[1].accuracy > an.runs[i].batch[2].accuracy

\* A batch that holds the second key's signal although the evaluation of the
\* first key failed.
C11_FailedKeyWitness ==
    \E i \in DOMAIN an.runs :
        /\ Len(an.runs[i].batch) = 1
        /\ an.runs[i].batch[1].timeframe = KeyOrder[2][2]
        /\ an.data[KeyOrder[1]].present
        /\ an.data[KeyOrder[1]].indicators = "raises"

\* The weights sum to 1.
WeightsSumToOne(w) == SumWeights(w.num, Features) = w.den

\* C12: immediately after any call of retrain_model, in any predictor state
\* reached through load_model, update_model_performance and earlier retrains,
\* the model weights sum to 1.
C12_WeightsSumToOneAfterRetrain ==
    acc.last = "retrain" => WeightsSumToOne(ai.model_weights)

C13_Appended(k) ==
    LET entries == SelectSeq(acc.log, LAMBDA e : e.key = k)
    IN  [i \in 1..Len(entries) |-> entries[i].result]

\* The results appended for any key, in arrival order.
C13_AppendedAll == [i \in 1..Len(acc.log) |-> acc.log[i].result]

\* C13: after any sequence of update_model_performance calls, every per-key
\* history holds at most 100 records and the performance list at most 1000,
\* and each holds exactly the most recently appended records, in arrival
\* order.
C13_BoundedFifoHistory ==
    acc.last \in {"init", "update"} =>
        /\ \A k \in Keys :
            /\ Len(ai.historical_data[k]) <= 100
            /\ ai.historical_data[k]
                 = SubSeq(C13_Appended(k), Len(C13_Appended(k)) - Len(ai.historical_data[k]) + 1,
                          Len(C13_Appended(k)))
            /\ Len(ai.historical_data[k]) = Min(100, Len(C13_Appended(k)))
        /\ Len(ai.performance_history) = Min(1000, Len(acc.log))
        /\ ai.performance_history
             = SubSeq(C13_AppendedAll, Len(acc.log) - Len(ai.performance_history) + 1,
                      Len(acc.log))

\* More than 1000 results were appended, more than 100 of them for the second
\* key: both the per-key history and the performance list have evicted.
C13_Witness ==
    /\ acc.last = "update"
    /\ Len(acc.log) > 1000
    /\ Len(C13_Appended(KeyOrder[2])) > 100
    /\ ai.performance_history[1].n = Len(acc.log) - 999
    /\ ai.historical_data[KeyOrder[2]][1].n > 2

\* C14, as stated: after save_model and load_model into a new predictor, the
\* new predictor has the weights, the per-key history and the performance list
\* of the predictor that was saved.
C14_RoundTripIdentical ==
    acc.last = "restore" => ai = acc.before

\* C14, amended: the weights and the per-key history are those of the
\* predictor that was saved; the performance list is its most recent 100
\* records.
C14_RoundTripRecentPerformance ==
    acc.last = "restore" =>
        /\ ai.model_weights = acc.before.model_weights
        /\ ai.historical_data = acc.before.historical_data
        /\ Len(ai.performance_history) = Min(100, Len(acc.before.performance_history))
        /\ \A i \in DOMAIN ai.performance_history :
                ai.performance_history[i]
                    = acc.before.performance_history[
                          Len(acc.before.performance_history) - Len(ai.performance_history) + i]

\* A predictor with loaded weights, both per-key histories filled and more
\* than 100 performance records was saved and loaded.
C14_Witness ==
    /\ acc.last = "restore"
    /\ acc.before.model_weights # DefaultWeights
    /\ Len(acc.before.performance_history) > 100
    /\ \A k \in Keys : acc.before.historical_data[k] # <<>>

\* C16: every call of predict returns a value in [0, 1], and a call in which an
\* internal step (normalization, base prediction, a correction) failed
\* returns exactly 0.5.
C16_PredictNeutralOnFailure ==
    \A i \in DOMAIN an.calls :
        /\ 0 <= an.calls[i].value /\ an.calls[i].value <= 10000
        /\ an.calls[i].raising # {} => an.calls[i].value = 5000

\* base(timeframe) * (0.5 + 0.5 * accuracy), rounded down.
C17_Product == (BaseTimes[an.timeframe] * (10000 + an.accuracy)) \div 20000

C18_EmergencyClosesCore ==
    [][(em = "notify" /\ em' = "idle")
        => (~core'.is_running /\ ~core'.ws_running /\ ~core'.ws_connected)]_vars

\* C19: inside one cycle the signals are handed to send_signal in the order of the
\* batch, which is non-increasing in accuracy; when the limiter refuses a signal,
\* every signal of the batch accepted before it has at least its accuracy, and
\* neither it nor any later signal of the batch is handed to send_signal.
C19_InOrder(signals, sent) ==
    \A k, l \in DOMAIN signals :
        (k < l /\ sent[k] > 0 /\ sent[l] > 0) => signals[k].accuracy >= signals[l].accuracy

C19_LimiterEndsBatch ==
    \A t \in Tasks :
        /\ C19_InOrder(task[t].signals, task[t].sent)
        /\ LET L == task[t].limited
           IN  L.at # 0 =>
                 /\ C19_InOrder(L.batch, L.sent)
                 /\ \A k \in DOMAIN L.batch :
                       /\ L.saved[k] > 0 => L.batch[k].accuracy >= L.batch[L.at].accuracy
                       /\ k >= L.at => (L.sent[k] = 0 /\ L.saved[k] = 0)

\* The limiter has refused the first signal of a batch of two, both of which pass
\* validation, in an hour that already has its five signals.
C19_Witness ==
    \E t \in Tasks :
        /\ task[t].limited.at = 1
        /\ Len(task[t].limited.batch) = 2
        /\ task[t].limited.batch[2].accuracy >= MinAccuracy
        /\ bot.signals_sent_today >= MaxSignalsPerHour

\* A batch of two whose first delivery was declined and whose second signal, of
\* lower accuracy, is handed to send_signal after it.
C19_OrderWitness ==
    \E t \in Tasks :
        /\ Len(task[t].signals) = 2
        /\ task[t].sent = <<1, 1>>
        /\ task[t].signals[1].accuracy > task[t].signals[2].accuracy

\* C20: a cycle in which a call of send_signal raises adds one to errors_this_hour.
C20_DispatchFailureCounted ==
    [][\A t \in Tasks :
          (/\ task[t].pc = "sending"
           /\ task'[t] # task[t]
           /\ task'[t].pc # "saving")
          => bot'.errors_this_hour = bot.errors_this_hour + 1]_vars

\* C21: _validate_signal accepts a signal exactly when it has its required fields,
\* its accuracy is at least the acceptance floor of the analyzer (a final score of
\* 0.70) and at least 60 seconds have passed since the last accepted signal.
C21_ValidationAtAnalyzerFloor ==
    an.calls > 0 =>
        (an.valid <=>
            /\ RequiredFields \subseteq DOMAIN an.signal
            /\ ScoreAccepted(an.final_score)
            /\ (bot.last_signal_time = NoTime
                \/ now - bot.last_signal_time >= MinSignalInterval))

\* C23: the direction of a produced signal is BUY exactly when at least two of the
\* three votes are bullish, Level 1 voting bullish exactly when the close rose over
\* the final candle, Level 2 when its MACD condition holds and Level 3 when its
\* prediction is above one half.
C23_DirectionIsMajorityOfSigns ==
    (an.calls > 0 /\ an.result.signal) =>
        LET level3 == Level3AiPrediction(an.rest, HourOfDay(now))
            votes == (IF an.readings.pct_change > 0 THEN 1 ELSE 0)
                     + (IF an.rest.level2.macd_condition THEN 1 ELSE 0)
                     + (IF level3.ai_prediction > One \div 2 THEN 1 ELSE 0)
        IN  an.result.direction = "BUY" <=> votes >= 2

\* C24: Level 1 is valid exactly when at least two of these hold: volume_tsunami
\* above 2.0, the magnitude of the price change above 0.002, the magnitude of the
\* rate of change above 0.1, ATR above 0.
C24_Level1CountsRocMagnitude ==
    an.calls > 0 =>
        LET conditions == (IF an.readings.volume_tsunami > VolumeTsunamiThreshold THEN 1 ELSE 0)
                          + (IF Abs(an.readings.pct_change) > PriceChangeThreshold THEN 1 ELSE 0)
                          + (IF Abs(an.readings.roc) > RocThreshold THEN 1 ELSE 0)
                          + (IF an.readings.atr > 0 THEN 1 ELSE 0)
        IN  an.level1.valid <=> conditions >= MinLevel1Conditions

\* C22: when a step of the predictor fails during a Level 3 evaluation, the Level 3
\* result is the one _fallback_prediction produces (with or without its random
\* bonus), valid exactly when the fallback score is at least 0.75.
C22_PredictorFaultFallsBack ==
    (an.calls > 0 /\ an.raising # {}) =>
        \E bonus \in BOOLEAN : an.level3 = FallbackPrediction(an.indicators, bonus)

\* C29: with non-negative weights that sum to 1, predict returns less than the signal
\* threshold 0.87, so the Level 3 result of _level3_ai_prediction is never valid, and
\* a signal is produced only with Level 1 and Level 2 both valid.
C29_Level3NeverValid ==
    an.calls > 0 =>
        /\ WeightsSumToOne(an.ai_predictor.model_weights)
        /\ an.level3.ai_prediction < SignalThreshold
        /\ ~an.level3.valid
        /\ an.result.signal => (an.level1.valid /\ an.level2.valid)

\* A signal produced from the largest prediction there is, 0.81: all the weight on
\* an oversold RSI, five hits in the history, the evening hour and a quiet market.
C29_Witness ==
    /\ an.calls > 0
    /\ an.raising = {}
    /\ an.level3.ai_prediction = 8100
    /\ an.result.signal

\* C25: a Level 3 prediction reads the weights and the history that load_model,
\* update_model_performance and retrain_model wrote last: its result is the one the
\* predictor of the core gives.
C25_Level3ReadsLastWritten ==
    acc.last = "level3" =>
        /\ an.ai_predictor.model_weights = ai.model_weights
        /\ an.ai_predictor.historical_data = ai.historical_data
        /\ an.level3 = Level3Full(OwnerFeatures, ai, KeyOrder[1], HourOfDay(now), {}, TRUE,
                                  CHOOSE ind \in FallbackIndicators : TRUE, FALSE)

\* C26: a step of _process_signals in which signals are refused, by _validate_signal
\* or by the limiter, counts no error and no signal: errors_this_hour, errors_count,
\* signals_sent_hour, signals_sent_today and last_signal_time keep the values they
\* had (after the increments of an acceptance that the same step completes), but for
\* the hourly and daily resets that the end of the cycle applies at a boundary; and
\* the cycle that ends this way is counted as successful.
C26_Counters(c) ==
    <<c.errors_this_hour, c.errors_count, c.signals_sent_hour, c.signals_sent_today,
      c.last_signal_time>>

C26_RejectionIsNoError ==
    [][\A t \in Tasks :
          (task[t].pc \in {"analyzing", "sending", "saving"} /\ task'[t] # task[t]) =>
              LET c == IF task[t].pc = "saving"
                       THEN [bot EXCEPT !.signals_sent_today = @ + 1,
                                        !.signals_sent_hour = @ + 1,
                                        !.last_signal_time = now]
                       ELSE bot
                  ended == task'[t].pc = "loop"
              IN  /\ C26_Counters(bot') =
                        C26_Counters(IF ended THEN ResetTimeBasedCounters(c, now) ELSE c)
                  /\ ended => /\ bot'.successful_cycles = bot.successful_cycles + 1
                              /\ bot'.total_cycles = bot.total_cycles + 1]_vars

\* The limiter has refused a signal in a cycle that was counted as successful, and
\* no error has been counted since the start.
C26_Witness ==
    \E t \in Tasks :
        /\ task[t].pc = "loop"
        /\ task[t].limited.at # 0
        /\ bot.successful_cycles = bot.total_cycles
        /\ bot.successful_cycles > MaxSignalsPerHour
        /\ bot.errors_count = 0
        /\ bot.errors_this_hour = 0

\* C27: at most one call of _main_trading_loop is executing (suspended at one of
\* the awaits of a cycle, or asleep between two cycles) at any time.
C27_InMainLoop(tk) ==
    \/ tk.pc \in {"analyzing", "sending", "saving", "report_error"}
    \/ tk.pc = "loop" /\ tk.wake # NoTime

C27_SingleMainLoop ==
    Cardinality({t \in Tasks : C27_InMainLoop(task[t])}) <= 1

\* C28: whenever no call of _main_trading_loop is executing and none is about to be
\* entered, is_active is false.
C28_IdleMeansInactive ==
    (\A t \in Tasks : task[t].pc = "idle") => ~bot.is_active

\* C30: retrain_model leaves every weight at its value when the weights sum to 1
\* before the call, whatever the recent average accuracy.
C30_SameValues(v, w) ==
    \A f \in Features : v.num[f] * w.den = w.num[f] * v.den

====
